---- MODULE Spec2Model ----
(***************************************************************************)
(* Model of mcp-auth-google-calendar.                                      *)
(*                                                                         *)
(*   client.py  run_chat_loop: storage directory of a profile, at most     *)
(*              max_retries connection attempts, the chat loop.            *)
(*   server.py  get_calendar_service, ListUpcomingEvents.run,              *)
(*              CreateEvent.run.                                           *)
(*                                                                         *)
(* Python strings are TLA+ strings; None is the value None below.  What    *)
(* the third-party libraries answer (the MCP server, the chat-completion   *)
(* API, the calendar API) is an input chosen with \E.  run_chat_loop is    *)
(* run as client.py runs it, by asyncio.run: it takes one step up to each  *)
(* await, and a Ctrl-C cancels the task.                                   *)
(***************************************************************************)
EXTENDS Integers, Sequences, FiniteSets, TLC

VARIABLES
    profile,        \* client.py: parameter of run_chat_loop
    dirs,           \* file system: the directories that exist (paths from the cwd)
    files,          \* file system: the files that exist
    pc,             \* client.py: where run_chat_loop is, or how the run ended
    attempt,        \* client.py: loop variable of `for attempt in range(max_retries)`
    connLog,        \* history: for each connection attempt, in order, the exception
                    \* it ended with, or "ok" once it is connected
    openai_tools,   \* client.py: the converted tools of the connected session
    messages,       \* client.py: the message history
    user_input,     \* client.py: what input() returned last
    turns,          \* history: number of inputs read
    turnLog,        \* history: requests and tool calls made for the last input, in order
    exc,            \* the exception asyncio.run(run_chat_loop(...)) ended with, or None
    cancelled,      \* asyncio.run: a Ctrl-C asked to cancel the task, not yet delivered
    call            \* server.py: the last tool run, its inputs and what it did

clientVars == <<profile, dirs, files, pc, attempt, connLog, openai_tools,
                messages, user_input, turns, turnLog, exc, cancelled>>
vars == <<profile, dirs, files, pc, attempt, connLog, openai_tools,
          messages, user_input, turns, turnLog, exc, cancelled, call>>

None == "None"

-----------------------------------------------------------------------------
(* Bounds *)

MaxTurns == 2       \* inputs read in one run
MaxCalls == 2       \* tool calls requested in one run
MaxEvents == 2      \* events in one calendar response

\* The inputs read in one run: MaxTurns with the default profile, one fewer
\* with any other
TurnBound(p) == IF p = "default" THEN MaxTurns ELSE MaxTurns - 1

-----------------------------------------------------------------------------
(* Strings *)

RECURSIVE Join(_, _)
\* sep.join(lines)
Join(lines, sep) ==
    IF Len(lines) = 0 THEN ""
    ELSE IF Len(lines) = 1 THEN lines[1]
    ELSE lines[1] \o sep \o Join(Tail(lines), sep)

UpperLetters == "ABCDEFGHIJKLMNOPQRSTUVWXYZ"
LowerLetters == "abcdefghijklmnopqrstuvwxyz"

\* str.lower() of one character
LowerChar(c) ==
    IF \E i \in 1..Len(UpperLetters) : SubSeq(UpperLetters, i, i) = c
    THEN LET i == CHOOSE i \in 1..Len(UpperLetters) : SubSeq(UpperLetters, i, i) = c
         IN  SubSeq(LowerLetters, i, i)
    ELSE c

\* A slip of line 73: the input is compared as typed
lower_missing(s) == s

RECURSIVE lower(_)
\* str.lower()
lower(s) ==
    IF s = "" THEN ""
    ELSE LowerChar(SubSeq(s, 1, 1)) \o lower(SubSeq(s, 2, Len(s)))

-----------------------------------------------------------------------------
(* Paths and the file system *)

RECURSIVE SplitPath(_, _)
\* The parts of a path string after its root: split at "/", where pathlib
\* drops empty parts and "." parts and keeps ".." parts.  cur is the part
\* being read.
SplitPath(s, cur) ==
    LET keep == IF cur = "" \/ cur = "." THEN <<>> ELSE <<cur>>
    IN  IF s = "" THEN keep
        ELSE IF SubSeq(s, 1, 1) = "/"
             THEN keep \o SplitPath(SubSeq(s, 2, Len(s)), "")
             ELSE SplitPath(SubSeq(s, 2, Len(s)), cur \o SubSeq(s, 1, 1))

\* Path(".client_storage") / p, as its parts: an absolute p replaces the left
\* operand
storage_dir_of(p) ==
    IF p # "" /\ SubSeq(p, 1, 1) = "/"
    THEN <<"/">> \o SplitPath(p, "")
    ELSE <<".client_storage">> \o SplitPath(p, "")

storage_dir == storage_dir_of(profile)

\* The root directory, and the working directory of the process: relative
\* paths start there
Root == <<"/">>
Cwd == <<"/", "home", "u", "proj">>

RECURSIVE Resolve(_)
\* The directory the file system finds for the parts of a path, written from
\* the root: a relative path starts in the working directory, ".." leaves
\* the directory named before it, and the root is its own parent
Resolve(p) ==
    IF Len(p) = 0 THEN Cwd
    ELSE LET d == Resolve(SubSeq(p, 1, Len(p) - 1))
             x == p[Len(p)]
         IN  IF x = "/" THEN Root
             ELSE IF x # ".." THEN Append(d, x)
             ELSE IF d = Root THEN d
             ELSE SubSeq(d, 1, Len(d) - 1)

\* q is the directory d or lies below it, both written from the root as
\* Resolve gives them
Below(d, q) == Len(d) <= Len(q) /\ SubSeq(q, 1, Len(d)) = d

\* Path.mkdir(parents=True, exist_ok=True): the directories afterwards.  Every
\* directory the path names on its way exists then; the root always does.
mkdir(ds, p) == ds \cup ({ Resolve(SubSeq(p, 1, n)) : n \in 1..Len(p) } \ {Root})

\* Path.exists(): the file system follows the path part by part, so every
\* directory it names on its way has to exist
exists(ds, p) == \A n \in 1..Len(p) : Resolve(SubSeq(p, 1, n)) \in ds \cup {Root}

FileNotFoundError == "FileNotFoundError"
OSError == "OSError"

\* shutil.rmtree(p) empties the directory and then removes it by the path p.
\* The path is lost when it passes through a directory below the one it
\* names (".client_storage/work/.."): FileNotFoundError.  The root cannot be
\* removed: OSError.
rmtree_error(p) ==
    IF \E n \in 1..(Len(p) - 1) :
          LET d == Resolve(SubSeq(p, 1, n))
          IN  Below(Resolve(p), d) /\ d # Resolve(p)
    THEN FileNotFoundError
    ELSE IF Resolve(p) = Root THEN OSError
    ELSE None

rmtree_raises(p) == rmtree_error(p) # None

\* shutil.rmtree(p): what is left of a set of paths.  When it raises, the
\* directory itself is left, empty.
rmtree(paths, p) ==
    { q \in paths : ~Below(Resolve(p), q) \/ (rmtree_raises(p) /\ q = Resolve(p)) }

\* DiskStore(directory=p): the store keeps its data in a file of the directory
DiskStore(fs, p) == fs \cup { Append(Resolve(p), "cache.db") }

\* Everything below a directory
Under(paths, p) == { q \in paths : Below(Resolve(p), q) /\ q # Resolve(p) }

-----------------------------------------------------------------------------
(* client.py: inputs *)

\* A slip of line 47: one retry more
max_retries_three == 1 + 2

max_retries == 2

\* Profile names given with --profile ("default" when it is not given)
Profiles ==
    {"default", "work", "work/old", "", "work/../default", "work/..", "..",
     "../../../uncle", "/abs/x", "/home/u", "/"}

\* What the user types at the prompt
UserInputs == {"quit", "eXiT", "hello"}

\* How an await of a connection attempt (Client.__aenter__, list_tools) can
\* end.  A Ctrl-C during the await cancels the task: CancelledError leaves
\* run_chat_loop and asyncio.run raises KeyboardInterrupt.
ClientNotFoundError == "ClientNotFoundError"
OtherError == "OtherError"
KeyboardInterrupt == "KeyboardInterrupt"
ConnectOutcomes == {"ok", ClientNotFoundError, OtherError, KeyboardInterrupt}

\* How the awaits of the two __aexit__ end: they return, or one of them
\* raises
CloseOutcomes == {"ok", ClientNotFoundError, OtherError}

\* The tools list_tools answers with
ListTool == [name |-> "list_upcoming_events",
             description |-> "List upcoming events from the primary calendar.",
             inputSchema |-> "schema:list"]
CreateTool == [name |-> "create_event",
               description |-> "Create a new event in the primary calendar.",
               inputSchema |-> "schema:create"]
ToolLists == {<<ListTool, CreateTool>>}

\* The arguments string of a requested tool call
ArgStrings == {"{}", "{\"max_results\":"}

\* json.loads: the parsed value, or not ok (JSONDecodeError) for text that is
\* no JSON document
json_loads(s) ==
    IF s = "{}" THEN [ok |-> TRUE, value |-> "dict()"]
    ELSE [ok |-> FALSE, value |-> "Expecting value"]

\* How mcp_client.call_tool can end: a result with text content, a result
\* with no content, or an exception
ToolOutcomes == {"text", "empty", "raise"}

\* The tool calls of a reply: n calls with ids call_1 .. call_n
ToolCallSeqs(n) ==
    { [i \in 1..n |-> [id |-> "call_" \o ToString(i),
                       name |-> "list_upcoming_events",
                       arguments |-> a[i]]] : a \in [1..n -> ArgStrings] }

-----------------------------------------------------------------------------
(* client.py: messages *)

UserMsg(content) ==
    [role |-> "user", content |-> content, tool_calls |-> <<>>,
     tool_call_id |-> None, name |-> None]

\* response.choices[0].message
ResponseMsg(content, tool_calls) ==
    [role |-> "assistant", content |-> content, tool_calls |-> tool_calls,
     tool_call_id |-> None, name |-> None]

ToolMsg(id, name, content) ==
    [role |-> "tool", content |-> content, tool_calls |-> <<>>,
     tool_call_id |-> id, name |-> name]

AssistantMsg(content) ==
    [role |-> "assistant", content |-> content, tool_calls |-> <<>>,
     tool_call_id |-> None, name |-> None]

\* Entries of turnLog
CompletionEv(tools, msgs) == [ev |-> "completion", tools |-> tools, id |-> None, n |-> Len(msgs)]
ToolEv(id) == [ev |-> "call_tool", tools |-> <<>>, id |-> id, n |-> 0]

\* convert_mcp_to_openai_tools
convert_mcp_to_openai_tools(mcp_tools) ==
    [i \in 1..Len(mcp_tools) |->
        [type |-> "function",
         function |-> [name |-> mcp_tools[i].name,
                       description |-> mcp_tools[i].description,
                       parameters |-> mcp_tools[i].inputSchema]]]

\* lines 100-103: the output of one executed tool call
ToolOutput(outcome) ==
    CASE outcome = "text"  -> "Upcoming events:"
      [] outcome = "empty" -> "Success"
      [] outcome = "raise" -> "Error: " \o "tool failed"

\* Tool calls requested so far in the run
RECURSIVE Requested(_)
Requested(msgs) ==
    IF Len(msgs) = 0 THEN 0 ELSE Len(msgs[1].tool_calls) + Requested(Tail(msgs))

\* The index in messages of the user message of the turn under way
TurnStart(msgs) ==
    CHOOSE k \in 1..Len(msgs) :
        /\ msgs[k].role = "user"
        /\ \A j \in (k + 1)..Len(msgs) : msgs[j].role # "user"

\* line 86: response_msg of the turn under way, which line 90 appended
response_msg(msgs) == msgs[TurnStart(msgs) + 1]

\* lines 92-112: the index of the tool call the loop is at, one more than
\* the tool messages appended
tool_index(msgs) == Len(msgs) - TurnStart(msgs)

-----------------------------------------------------------------------------
(* client.py: run_chat_loop *)

\* The profiles with storage left by earlier runs: none when the default
\* profile is run, as on a first run, and all of them with any other profile
PriorStores(p) == IF p = "default" THEN {{}} ELSE {Profiles}

Init ==
    /\ profile \in Profiles
    /\ \E prior \in PriorStores(profile) :
         /\ dirs = UNION ({ mkdir({}, Cwd) } \cup { mkdir({}, storage_dir_of(q)) : q \in prior })
         /\ files = UNION { DiskStore({}, storage_dir_of(q)) : q \in prior }
    /\ pc = "start"
    /\ attempt = 0
    /\ connLog = <<>>
    /\ openai_tools = <<>>
    /\ messages = <<>>
    /\ user_input = None
    /\ turns = 0
    /\ turnLog = <<>>
    /\ exc = None
    /\ cancelled = FALSE
    /\ call = <<>>

\* lines 44-48: create the storage directory, enter the retry loop
Start ==
    /\ pc = "start"
    /\ dirs' = mkdir(dirs, storage_dir)
    /\ pc' = "connect"
    /\ attempt' = 0
    /\ UNCHANGED <<profile, files, connLog, openai_tools, messages, user_input,
                   turns, turnLog, exc, cancelled, call>>

\* lines 50-53: the store of the attempt is created; run_chat_loop enters it
\* and waits for the client to connect
OpenStore ==
    /\ pc = "connect"
    /\ files' = DiskStore(files, storage_dir)
    /\ pc' = "entering"
    /\ UNCHANGED <<profile, dirs, attempt, connLog, openai_tools, messages,
                   user_input, turns, turnLog, exc, cancelled, call>>

\* line 138 raises: the directory is there and rmtree cannot remove it
ClearingRaises(ds) == exists(ds, storage_dir) /\ rmtree_raises(storage_dir)

\* lines 137-139: what `except ClientNotFoundError` leaves of the file system.
\* When rmtree raises, line 139 is not reached.
ClearedDirs(ds) ==
    IF ~exists(ds, storage_dir) THEN ds
    ELSE IF rmtree_raises(storage_dir) THEN rmtree(ds, storage_dir)
    ELSE mkdir(rmtree(ds, storage_dir), storage_dir)

ClearedFiles(ds, fs) ==
    IF exists(ds, storage_dir) THEN rmtree(fs, storage_dir) ELSE fs

\* lines 132-143: the handler of ClientNotFoundError.  An exception of the
\* handler is what the attempt, and the run, ends with.  log holds how the
\* attempts before this one ended.
HandleClientNotFound(log) ==
    /\ dirs' = ClearedDirs(dirs)
    /\ files' = ClearedFiles(dirs, files)
    /\ IF ClearingRaises(dirs)
       THEN /\ connLog' = Append(log, rmtree_error(storage_dir))
            /\ pc' = "raised"
            /\ exc' = rmtree_error(storage_dir)
            /\ attempt' = attempt
       ELSE /\ connLog' = Append(log, ClientNotFoundError)
            /\ IF attempt = max_retries - 1
               THEN /\ pc' = "raised"
                    /\ exc' = ClientNotFoundError
                    /\ attempt' = attempt
               ELSE /\ pc' = "connect"
                    /\ exc' = exc
                    /\ attempt' = attempt + 1

\* The try block of the attempt (lines 52-130) ended with the exception out:
\* the attempt is over, ClientNotFoundError goes to its handler and anything
\* else to the caller
AttemptFailed(log, out) ==
    /\ IF out = ClientNotFoundError
       THEN HandleClientNotFound(log)
       ELSE /\ connLog' = Append(log, out)
            /\ pc' = "raised"
            /\ exc' = out
            /\ UNCHANGED <<dirs, files, attempt>>
    /\ UNCHANGED <<profile, openai_tools, messages, user_input, turns, turnLog,
                   cancelled, call>>

\* line 60 (and 132-143): the await of Client.__aenter__ ends
EnterClient ==
    /\ pc = "entering"
    /\ \E out \in ConnectOutcomes :
         IF out = "ok"
         THEN /\ pc' = "listing"
              /\ UNCHANGED <<profile, dirs, files, attempt, connLog, openai_tools,
                             messages, user_input, turns, turnLog, exc, cancelled, call>>
         ELSE AttemptFailed(connLog, out)

\* lines 63-68 (and 132-143): the await of list_tools ends
ListTools ==
    /\ pc = "listing"
    /\ \E out \in ConnectOutcomes, mcp_tools \in ToolLists :
         IF out = "ok"
         THEN /\ connLog' = Append(connLog, out)
              /\ openai_tools' = convert_mcp_to_openai_tools(mcp_tools)
              /\ messages' = <<>>
              /\ pc' = "prompt"
              /\ UNCHANGED <<profile, dirs, files, attempt, user_input, turns,
                             turnLog, exc, cancelled, call>>
         ELSE AttemptFailed(connLog, out)

\* The task of run_chat_loop ends after its `return`.  With a cancellation
\* pending it ends cancelled, and asyncio.run raises KeyboardInterrupt.
Return ==
    IF cancelled
    THEN pc' = "raised" /\ exc' = KeyboardInterrupt
    ELSE pc' = "returned" /\ exc' = exc

\* line 151: the first Ctrl-C while input() waits.  asyncio.run's handler
\* asks to cancel the task and raises nothing: input() goes on waiting.
SigInt ==
    /\ pc = "prompt"
    /\ ~cancelled
    /\ cancelled' = TRUE
    /\ UNCHANGED <<profile, dirs, files, pc, attempt, connLog, openai_tools,
                   messages, user_input, turns, turnLog, exc, call>>

\* lines 72-74: input() returned quit or exit.  The `return` leaves the two
\* `async with` blocks (lines 60 and 53) and awaits their __aexit__.
Quit ==
    /\ pc = "prompt"
    /\ \E inp \in UserInputs :
         /\ lower(inp) \in {"quit", "exit"}
         /\ user_input' = inp
    /\ turns' = turns + 1
    /\ turnLog' = <<>>
    /\ pc' = "closing"
    /\ UNCHANGED <<profile, dirs, files, attempt, connLog, openai_tools, messages,
                   exc, cancelled, call>>

\* lines 72-84: input() returned anything else; the input is appended and the
\* first completion request is sent
Ask ==
    /\ pc = "prompt"
    /\ turns < TurnBound(profile)
    /\ \E inp \in UserInputs :
         /\ lower(inp) \notin {"quit", "exit"}
         /\ user_input' = inp
         /\ messages' = Append(messages, UserMsg(inp))
    /\ turnLog' = <<CompletionEv(openai_tools, messages')>>
    /\ turns' = turns + 1
    /\ pc' = "await_reply"
    /\ UNCHANGED <<profile, dirs, files, attempt, connLog, openai_tools, exc,
                   cancelled, call>>

\* lines 92-100 and 115: the loop is at call i of calls.  json.loads is
\* outside the inner try: arguments that do not parse end the turn in the
\* handler of line 127.  After the last call the follow-up request is sent.
NextCall(calls, i, msgs, log) ==
    /\ messages' = msgs
    /\ IF i > Len(calls)
       THEN /\ turnLog' = Append(log, CompletionEv(<<>>, msgs))
            /\ pc' = "await_final"
       ELSE IF ~json_loads(calls[i].arguments).ok
       THEN /\ turnLog' = log
            /\ pc' = "prompt"
       ELSE /\ turnLog' = Append(log, ToolEv(calls[i].id))
            /\ pc' = "await_tool"

\* lines 79-100, 122-128: the await of the first completion ends
Reply ==
    /\ pc = "await_reply"
    /\ ~cancelled
    /\ \E failed \in BOOLEAN, n \in 0..(MaxCalls - Requested(messages)) :
         \E calls \in ToolCallSeqs(n) :
            LET msg == ResponseMsg(IF n = 0 THEN "Hi." ELSE None, calls)
            IN  IF failed
                THEN /\ pc' = "prompt"
                     /\ UNCHANGED <<messages, turnLog>>
                ELSE IF Len(msg.tool_calls) = 0
                THEN /\ messages' = Append(messages, msg)
                     /\ pc' = "prompt"
                     /\ UNCHANGED turnLog
                ELSE NextCall(calls, 1, Append(messages, msg), turnLog)
    /\ UNCHANGED <<profile, dirs, files, attempt, connLog, openai_tools, user_input,
                   turns, exc, cancelled, call>>

\* lines 100-115: the await of call_tool ends, its tool message is appended
ToolReturn ==
    /\ pc = "await_tool"
    /\ ~cancelled
    /\ \E outcome \in ToolOutcomes :
         LET calls == response_msg(messages).tool_calls
             i == tool_index(messages)
         IN  NextCall(calls, i + 1,
                      Append(messages, ToolMsg(calls[i].id, calls[i].name,
                                               ToolOutput(outcome))),
                      turnLog)
    /\ UNCHANGED <<profile, dirs, files, attempt, connLog, openai_tools, user_input,
                   turns, exc, cancelled, call>>

\* lines 115-120, 127-128: the await of the follow-up completion ends
Final ==
    /\ pc = "await_final"
    /\ ~cancelled
    /\ \E final \in {"raise", "Done."} :
         messages' = IF final = "raise" THEN messages
                     ELSE Append(messages, AssistantMsg(final))
    /\ pc' = "prompt"
    /\ UNCHANGED <<profile, dirs, files, attempt, connLog, openai_tools, user_input,
                   turns, turnLog, exc, cancelled, call>>

InBody == pc \in {"await_reply", "await_tool", "await_final"}

\* lines 125-126: KeyboardInterrupt is raised in the loop body, in input() or
\* in the middle of a turn; the `return` of the handler leaves the two
\* `async with` blocks as the one of line 74 does
Interrupt ==
    /\ pc = "prompt" \/ InBody
    /\ pc' = "closing"
    /\ UNCHANGED <<profile, dirs, files, attempt, connLog, openai_tools, messages,
                   user_input, turns, turnLog, exc, cancelled, call>>

\* lines 60 and 53 (and 132-143): the awaits of Client.__aexit__ and
\* DiskStore.__aexit__ end.  When they return, run_chat_loop ends.  They are
\* inside the try block of the attempt: when one raises, the attempt that
\* was connected ends with the exception, and ClientNotFoundError goes to
\* its handler.  With a cancellation pending the first of the awaits is
\* cancelled.
Close ==
    /\ pc = "closing"
    /\ \E out \in CloseOutcomes :
         IF out = "ok" \/ cancelled
         THEN /\ Return
              /\ UNCHANGED <<profile, dirs, files, attempt, connLog, openai_tools,
                             messages, user_input, turns, turnLog, cancelled, call>>
         ELSE AttemptFailed(SubSeq(connLog, 1, Len(connLog) - 1), out)

\* line 151: the task is cancelled while it awaits, in the loop body or in
\* an __aexit__ after the `return` (a Ctrl-C now, or the one pending).
\* CancelledError is no Exception: no handler of the body catches it, and
\* asyncio.run raises KeyboardInterrupt.
Cancel ==
    /\ InBody \/ pc = "closing"
    /\ pc' = "raised"
    /\ exc' = KeyboardInterrupt
    /\ UNCHANGED <<profile, dirs, files, attempt, connLog, openai_tools, messages,
                   user_input, turns, turnLog, cancelled, call>>

Next ==
    \/ Start \/ OpenStore \/ EnterClient \/ ListTools
    \/ SigInt \/ Quit \/ Ask \/ Reply \/ ToolReturn \/ Final
    \/ Interrupt \/ Close \/ Cancel

Spec == Init /\ [][Next]_vars

-----------------------------------------------------------------------------
(* server.py: inputs *)

\* A key a dict may leave out, an attribute an object may lack, or a value
\* that may be None: <<>> when it is missing, <<v>> when it is there with v.
Absent == <<>>
Some(v) == <<v>>
Opt(S) == {Absent} \cup { Some(v) : v \in S }

\* dict.get(key, default), getattr(obj, key, default)
Get(d, key, default) == IF d[key] = Absent THEN default ELSE d[key][1]

\* request_obj.user
Users ==
    [is_authenticated : BOOLEAN,
     access_token : Opt([token : Opt({None, "", "ya29.A"})]),
     token : Opt({None, "", "ya29.B"})]

\* ctx.request_context: None (Absent), or a context whose request has a user
\* attribute or none
RequestContexts == Opt([request : [user : Opt(Users)]])

\* The microsecond of the clock when line 158 reads it, on 2026-10-28 at
\* 12:00:00 UTC
Clocks == {0, 1, 250000}

RECURSIVE ZeroPad(_, _)
\* n in w decimal digits
ZeroPad(n, w) ==
    IF w = 0 THEN ""
    ELSE ZeroPad(n \div 10, w - 1) \o SubSeq("0123456789", (n % 10) + 1, (n % 10) + 1)

\* datetime.isoformat() of the UTC time: the fraction is left out when the
\* microsecond is 0
isoformat(microsecond) ==
    "2026-10-28T12:00:00"
    \o (IF microsecond = 0 THEN "" ELSE "." \o ZeroPad(microsecond, 6))
    \o "+00:00"

RECURSIVE replace(_, _, _)
\* str.replace(old, new)
replace(s, old, new) ==
    IF Len(s) < Len(old) THEN s
    ELSE IF SubSeq(s, 1, Len(old)) = old
    THEN new \o replace(SubSeq(s, Len(old) + 1, Len(s)), old, new)
    ELSE SubSeq(s, 1, 1) \o replace(SubSeq(s, 2, Len(s)), old, new)

\* line 158: datetime.now(timezone.utc).isoformat().replace("+00:00", "Z")
now(clock) == replace(isoformat(clock), "+00:00", "Z")

\* Events of a calendar response.  The API gives every listed event a start,
\* a timed event with dateTime and an all-day event with date.
Starts == [dateTime : Opt({"2026-11-02T09:00:00Z"}), date : Opt({"2026-11-03"})]
Summaries == Opt({"Standup", ""})
Events == [start : Starts, summary : Summaries]

SeqsUpTo(S, n) == UNION { [1..k -> S] : k \in 0..n }

\* What events().list(...).execute() answers: an exception, or a response
\* whose items key is left out or holds a list of events
ListResponses ==
    [raise : {TRUE}, items : {Absent}]
    \cup [raise : {FALSE}, items : Opt(SeqsUpTo(Events, MaxEvents))]

\* What events().insert(...).execute() answers
InsertResponses ==
    [raise : {TRUE}, htmlLink : {Absent}]
    \cup [raise : {FALSE}, htmlLink : Opt({"https://calendar.example/e1"})]

ListArguments == [max_results : Opt({5}), time_min : Opt({"", "2027-01-01T00:00:00Z"})]
CreateArguments ==
    [summary : Opt({"Lunch"}), start_time : Opt({"2026-11-02T12:00:00Z"}),
     end_time : Opt({"2026-11-02T13:00:00Z"}), description : Opt({"with Ana"})]

-----------------------------------------------------------------------------
(* server.py: get_calendar_service *)

ToolError(msg) == [ok |-> FALSE, error |-> "ToolError", message |-> msg, token |-> None]

\* A slip of lines 106-109: user.access_token is not looked at
ExtractToken_tokenonly(user) == Get(user, "token", None)

\* lines 105-109: the access token of the user object
ExtractToken(user) ==
    IF user.access_token # Absent /\ user.access_token[1].token # Absent
    THEN user.access_token[1].token[1]
    ELSE Get(user, "token", None)

\* lines 91-129, without the handler.  build_ok says whether build() returned.
BuildService(req_ctx, build_ok) ==
    IF req_ctx = Absent
    THEN ToolError("No active request context found.")
    ELSE LET request_obj == req_ctx[1].request
         IN  IF request_obj.user = Absent \/ ~request_obj.user[1].is_authenticated
             THEN ToolError("No active authentication found. Please log in.")
             ELSE LET access_token == ExtractToken(request_obj.user[1])
                  IN  IF access_token \in {None, ""}
                      THEN ToolError("Could not retrieve access token from user context.")
                      ELSE IF ~build_ok
                      THEN [ok |-> FALSE, error |-> "Exception",
                            message |-> "unknown api", token |-> None]
                      ELSE [ok |-> TRUE, error |-> None, message |-> None,
                            token |-> access_token]

\* lines 87-133: every exception becomes a ToolError
get_calendar_service(req_ctx, build_ok) ==
    LET r == BuildService(req_ctx, build_ok)
    IN  IF r.ok THEN r
        ELSE ToolError("System Authorization Failure: " \o r.message)

-----------------------------------------------------------------------------
(* server.py: ListUpcomingEvents.run *)

\* A slip of lines 177-178: date is preferred to dateTime
EventLine_datefirst(event) ==
    LET start == Get(event.start, "date", Get(event.start, "dateTime", None))
    IN  "- " \o start \o ": " \o Get(event, "summary", "No Title")

\* lines 177-180: the line of one event
EventLine(event) ==
    LET start == Get(event.start, "dateTime", Get(event.start, "date", None))
    IN  "- " \o start \o ": " \o Get(event, "summary", "No Title")

\* lines 170-182: the text of a response
FormatEvents(response) ==
    LET events == Get(response, "items", <<>>)
    IN  IF Len(events) = 0 THEN "No upcoming events found."
        ELSE LET result_lines == <<"Upcoming events:">> \o
                                 [i \in 1..Len(events) |-> EventLine(events[i])]
             IN  Join(result_lines, "\n")

TextResult(text) == [kind |-> "text", text |-> text]

\* lines 149-186
ListUpcomingEventsRun(arguments, req_ctx, build_ok, clock, response) ==
    LET max_results == Get(arguments, "max_results", 10)
        time_min == Get(arguments, "time_min", None)
        service == get_calendar_service(req_ctx, build_ok)
        t_min == IF time_min \notin {None, ""} THEN time_min ELSE now(clock)
        request == [method |-> "events.list", calendarId |-> "primary",
                    token |-> service.token,
                    params |-> [timeMin |-> t_min, maxResults |-> max_results,
                                singleEvents |-> TRUE, orderBy |-> "startTime"]]
        fail(msg) == TextResult("Google Calendar API Error: " \o msg)
    IN  IF ~service.ok
        THEN [service |-> service, requests |-> <<>>, result |-> fail(service.message)]
        ELSE IF response.raise
        THEN [service |-> service, requests |-> <<request>>, result |-> fail("HttpError 403")]
        ELSE [service |-> service, requests |-> <<request>>,
              result |-> TextResult(FormatEvents(response))]

\* lines 205-227.  ctx.session_id in the handler is the library's: with no
\* request context it may raise, and session_ok says whether it answered.
CreateEventRun(arguments, req_ctx, build_ok, response, session_ok) ==
    LET summary == Get(arguments, "summary", None)
        start_time == Get(arguments, "start_time", None)
        end_time == Get(arguments, "end_time", None)
        description == Get(arguments, "description", "")
        service == get_calendar_service(req_ctx, build_ok)
        event_body == [summary |-> summary, description |-> description,
                       start |-> [dateTime |-> start_time, timeZone |-> "UTC"],
                       end |-> [dateTime |-> end_time, timeZone |-> "UTC"]]
        request == [method |-> "events.insert", calendarId |-> "primary",
                    token |-> service.token, params |-> event_body]
        fail(msg) == IF req_ctx = Absent /\ ~session_ok
                     THEN [kind |-> "raise", text |-> "RuntimeError"]
                     ELSE TextResult("Failed to create event: " \o msg)
    IN  IF ~service.ok
        THEN [service |-> service, requests |-> <<>>, result |-> fail(service.message)]
        ELSE IF response.raise
        THEN [service |-> service, requests |-> <<request>>, result |-> fail("HttpError 403")]
        ELSE [service |-> service, requests |-> <<request>>,
              result |-> TextResult("Event created successfully. Link: "
                                    \o Get(response, "htmlLink", None))]

\* The calendar API answers only a request that was sent: without a service
\* the response is the first of these, and never read
NoListResponse == [raise |-> TRUE, items |-> Absent]
NoInsertResponse == [raise |-> TRUE, htmlLink |-> Absent]

\* A tool call the server received: the arguments and the context of the request
Pending(tool, arguments, req_ctx) ==
    [tool |-> tool, arguments |-> arguments, req_ctx |-> req_ctx, done |-> FALSE]

\* The call after the tool ran
Done(c, response, r) ==
    [tool |-> c.tool, arguments |-> c.arguments, req_ctx |-> c.req_ctx, done |-> TRUE,
     response |-> response, service |-> r.service, requests |-> r.requests,
     result |-> r.result]

\* ListUpcomingEvents.run on the pending call, with what the libraries answer
ListRun ==
    /\ call # Absent
    /\ ~call[1].done
    /\ call[1].tool = "list_upcoming_events"
    /\ \E build_ok \in BOOLEAN, clock \in Clocks, response \in ListResponses :
         /\ get_calendar_service(call[1].req_ctx, build_ok).ok \/ response = NoListResponse
         /\ call' = Some(Done(call[1], response,
                      ListUpcomingEventsRun(call[1].arguments, call[1].req_ctx,
                                            build_ok, clock, response)))
    /\ UNCHANGED clientVars

\* CreateEvent.run on the pending call, with what the libraries answer
CreateRun ==
    /\ call # Absent
    /\ ~call[1].done
    /\ call[1].tool = "create_event"
    /\ \E build_ok \in BOOLEAN, response \in InsertResponses, session_ok \in BOOLEAN :
         /\ get_calendar_service(call[1].req_ctx, build_ok).ok \/ response = NoInsertResponse
         /\ call[1].req_ctx # Absent => session_ok
         /\ call' = Some(Done(call[1], response,
                      CreateEventRun(call[1].arguments, call[1].req_ctx,
                                     build_ok, response, session_ok)))
    /\ UNCHANGED clientVars

\* The server with one tool call to run
ServerInit ==
    /\ profile = "default"
    /\ dirs = {}
    /\ files = {}
    /\ pc = "start"
    /\ attempt = 0
    /\ connLog = <<>>
    /\ openai_tools = <<>>
    /\ messages = <<>>
    /\ user_input = None
    /\ turns = 0
    /\ turnLog = <<>>
    /\ exc = None
    /\ cancelled = FALSE
    /\ \E req_ctx \in RequestContexts :
         \/ \E arguments \in ListArguments :
              call = Some(Pending("list_upcoming_events", arguments, req_ctx))
         \/ \E arguments \in CreateArguments :
              call = Some(Pending("create_event", arguments, req_ctx))

ServerNext == ListRun \/ CreateRun

ServerSpec == ServerInit /\ [][ServerNext]_vars

-----------------------------------------------------------------------------
(* Claims about client.py, checked under Spec *)

Last(q) == q[Len(q)]

\* C1: run_chat_loop makes at most two connection attempts; a second attempt
\* is made only after the first ended with ClientNotFoundError; any other
\* exception of an attempt is raised to the caller and no attempt follows it.
C1_AtMostOneRetry ==
    /\ Len(connLog) <= 2
    /\ \A i \in 1..Len(connLog) :
         /\ i < Len(connLog) => connLog[i] = ClientNotFoundError
         /\ connLog[i] \notin {"ok", ClientNotFoundError} =>
              i = Len(connLog) /\ pc = "raised" /\ exc = connLog[i]

\* A second attempt was made after a rejected first one, and failed otherwise
C1_Witness ==
    /\ connLog = <<ClientNotFoundError, OtherError>>
    /\ pc = "raised"

\* The messages that follow the last user message
LastUserIndex ==
    CHOOSE k \in 1..Len(messages) :
        /\ messages[k].role = "user"
        /\ \A j \in (k + 1)..Len(messages) : messages[j].role # "user"
AfterLastUser == SubSeq(messages, LastUserIndex + 1, Len(messages))

\* C2: for an input other than quit/exit the client sends one completion
\* request with the discovered tools; when the reply requests tool calls it
\* executes each once, in order, appends a tool message with the call's id for
\* each, and then sends one follow-up request without tools; when the reply
\* requests none, no tool is executed and no second request is sent.  Stated
\* of the turns that ran to their end, the loop being back at the prompt.
C2_EachCallThenFollowUp ==
    (pc = "prompt" /\ turnLog # <<>>) =>
        /\ turnLog[1].ev = "completion"
        /\ turnLog[1].tools = openai_tools
        /\ turnLog[1].tools # <<>>
        /\ AfterLastUser = <<>> => Len(turnLog) = 1
        /\ AfterLastUser # <<>> =>
             LET calls == AfterLastUser[1].tool_calls
                 n == Len(calls)
             IN  IF n = 0 THEN Len(turnLog) = 1
                 ELSE /\ Len(turnLog) = n + 2
                      /\ \A i \in 1..n :
                           /\ turnLog[i + 1].ev = "call_tool"
                           /\ turnLog[i + 1].id = calls[i].id
                      /\ turnLog[n + 2].ev = "completion"
                      /\ turnLog[n + 2].tools = <<>>
                      /\ Len(AfterLastUser) >= n + 1
                      /\ \A i \in 1..n :
                           /\ AfterLastUser[i + 1].role = "tool"
                           /\ AfterLastUser[i + 1].tool_call_id = calls[i].id

\* C4: the handler of a rejected attempt clears the storage and raises
\* nothing of its own; after a connection attempt that ended with
\* ClientNotFoundError, and before the next attempt creates its store, the
\* storage directory of the profile exists and is empty; after the first
\* attempt the loop goes on to the second, after the second the error is
\* raised to the caller.
C4_ClearedBeforeRetry ==
    /\ \A i \in 1..Len(connLog) : connLog[i] \notin {FileNotFoundError, OSError}
    /\ (connLog # <<>> /\ Last(connLog) = ClientNotFoundError) =>
          /\ Len(connLog) = 1 => pc \in {"connect", "entering", "listing"} /\ exc = None
          /\ Len(connLog) = 2 => pc = "raised" /\ exc = ClientNotFoundError
          /\ pc \in {"connect", "raised"} =>
               /\ exists(dirs, storage_dir)
               /\ Under(dirs \cup files, storage_dir) = {}

\* "quit" or "exit" in any letter case
IsCaseVariant(s, word) ==
    /\ Len(s) = Len(word)
    /\ \A i \in 1..Len(word) :
         \E j \in 1..Len(LowerLetters) :
            /\ SubSeq(word, i, i) = SubSeq(LowerLetters, j, j)
            /\ SubSeq(s, i, i) \in {SubSeq(LowerLetters, j, j), SubSeq(UpperLetters, j, j)}
IsQuitWord(s) == IsCaseVariant(s, "quit") \/ IsCaseVariant(s, "exit")

\* The step reads quit or exit
ReadsQuit == turns' = turns + 1 /\ IsQuitWord(user_input')

\* The run has ended
Ended == pc \in {"returned", "raised"}

\* run_chat_loop is leaving after quit or exit
QuitClosing == pc = "closing" /\ IsQuitWord(user_input)

StoreOf(paths, q) ==
    paths \cap {Resolve(storage_dir_of(q)), Append(Resolve(storage_dir_of(q)), "cache.db")}

\* C6: clearing the cache after a rejected connection (whether or not the
\* clearing itself fails) leaves the storage of every profile other than the
\* one in use unchanged.
C6_OtherProfilesKept ==
    [][ (connLog' # connLog
         /\ Last(connLog') \in {ClientNotFoundError, FileNotFoundError, OSError}) =>
          \A q \in Profiles \ {profile} :
              StoreOf(dirs' \cup files', q) = StoreOf(dirs \cup files, q) ]_vars

-----------------------------------------------------------------------------
(* Claims about server.py, checked under ServerSpec *)

\* The user of the call's request, when the request context and the user exist
HasUser(c) == c.req_ctx # Absent /\ c.req_ctx[1].request.user # Absent
UserOf(c) == c.req_ctx[1].request.user[1]

\* user.access_token.token when present, otherwise user.token
ClaimedToken(u) ==
    IF u.access_token # Absent /\ u.access_token[1].token # Absent
    THEN u.access_token[1].token[1]
    ELSE IF u.token # Absent THEN u.token[1] ELSE None

Authorized(c) ==
    /\ HasUser(c)
    /\ UserOf(c).is_authenticated
    /\ ClaimedToken(UserOf(c)) \notin {None, ""}

\* C3: a tool sends a request to the calendar API only when the request
\* context exists, its request has an authenticated user and a non-empty
\* access token was extracted, and the request carries that token; in every
\* other case no request is sent and get_calendar_service fails with ToolError.
C3_RequestOnlyWithToken ==
    (call # Absent /\ call[1].done) =>
        LET c == call[1]
        IN  /\ c.requests # <<>> =>
                 /\ Authorized(c)
                 /\ Len(c.requests) = 1
                 /\ c.requests[1].token = ClaimedToken(UserOf(c))
            /\ ~Authorized(c) =>
                 /\ c.requests = <<>>
                 /\ ~c.service.ok
                 /\ c.service.error = "ToolError"

\* A request went out with user.token, the user having no access_token object
C3_Witness ==
    /\ call # Absent
    /\ call[1].done
    /\ call[1].tool = "create_event"
    /\ call[1].requests # <<>>
    /\ call[1].requests[1].token = "ya29.B"
    /\ UserOf(call[1]).access_token = Absent

RECURSIVE C7_Lines(_, _)
\* "\n- <start>: <summary>" for the events from the i-th on
C7_Lines(items, i) ==
    IF i > Len(items) THEN ""
    ELSE LET e == items[i]
             start == IF e.start.dateTime # Absent THEN e.start.dateTime[1]
                      ELSE IF e.start.date # Absent THEN e.start.date[1] ELSE None
             summary == IF e.summary = Absent THEN "No Title" ELSE e.summary[1]
         IN  "\n- " \o start \o ": " \o summary \o C7_Lines(items, i + 1)

\* C7: list_upcoming_events answers "No upcoming events found." when the
\* response has no items, and otherwise "Upcoming events:" followed by one
\* line "- <start>: <summary>" per event, in the order of the response.
C7_EventListText ==
    (/\ call # Absent
     /\ call[1].done
     /\ call[1].tool = "list_upcoming_events"
     /\ call[1].requests # <<>>
     /\ ~call[1].response.raise) =>
        LET items == IF call[1].response.items = Absent THEN <<>>
                     ELSE call[1].response.items[1]
        IN  /\ call[1].result.kind = "text"
            /\ call[1].result.text =
                 IF Len(items) = 0 THEN "No upcoming events found."
                 ELSE "Upcoming events:" \o C7_Lines(items, 1)

\* Two events: one with both dateTime and date and no summary, then an
\* all-day one with a summary
C7_Witness ==
    /\ call # Absent
    /\ call[1].done
    /\ call[1].tool = "list_upcoming_events"
    /\ call[1].result.text =
         "Upcoming events:\n- 2026-11-02T09:00:00Z: No Title\n- 2026-11-03: Standup"
    /\ call[1].response.items[1][1].start.date # Absent

====
